---- MODULE Spec2Model ----
(***************************************************************************)
(* A model of yabs' build orchestrator (src/lib/build.rs): the staleness   *)
(* queue (build_object_queue), the bounded compile scheduler               *)
(* (run_job_queue), the binary/library pipeline (build, build_all_*,       *)
(* build_*_with_name, build_binary, build_library), clean, and the upward  *)
(* search for the build file (find_build_file).                            *)
(*                                                                         *)
(* The controller is one sequential flow; compiler processes are children  *)
(* of the operating system that exit on their own (ProcExit).              *)
(***************************************************************************)
EXTENDS Integers, Sequences, FiniteSets, TLC

\* ------------------------------------------------------------------ bounds
NumTargets == 2   \* discovered source files (keys of file_mod_map)
MaxBins == 2      \* declared [[bin]] entries
MaxLibs == 1      \* declared [[lib]] entries
MaxCalls == 2     \* successive clean() calls in SpecClean
MaxDepth == 2     \* components of the directory find_build_file starts at

Targets == 1..NumTargets          \* a Target is its rank in source-path order
Times == 1..NumTargets            \* source modified times
OutTimes == 0..NumTargets         \* modified times an output path can report
Jobs == 0..NumTargets             \* worker budgets (`jobs: usize`)
BinNames == 1..MaxBins
LibNames == 1..MaxLibs
Pids == 1..NumTargets             \* process table slots of live children
DirNames == 1..MaxDepth           \* names a path component can have

\* Option<T>: None is the empty sequence, Some(x) the one-element sequence.
None == <<>>
Some(x) == <<x>>
is_some(o) == o # None
unwrap(o) == o[1]

Range(s) == {s[i] : i \in 1..Len(s)}
Min(S) == CHOOSE x \in S : \A y \in S : x <= y

\* ----------------------------------------------------------------- results
Ok == [tag |-> "Ok", kind |-> "", what |-> "", name |-> 0]
Err(k) == [tag |-> "Err", kind |-> k, what |-> "", name |-> 0]
TargetNotFound(w, n) == [tag |-> "Err", kind |-> "TargetNotFound", what |-> w, name |-> n]
NoResult == [tag |-> "None", kind |-> "", what |-> "", name |-> 0]

\* ------------------------------------------------------------------- state
VARIABLES
    file_mod_map,   \* project.file_mod_map : Target -> modified time
    binaries,       \* Option<Vec<Binary>>, a Binary is its name
    libraries,      \* Option<Vec<Library>>
    fs,             \* which files exist: objects, binaries, library files
    call,           \* the public method running: name and arguments
    pc,             \* where the controller stands
    kind,           \* "bin" / "lib": which loop the current output is of
    idx,            \* index of the current output in its Vec
    outM,           \* Option<time>: what build_object_queue read of the output
    job_queue,      \* Vec<Target> of run_job_queue (as last seen, once it returned)
    job_processes,  \* Vec<Job> of run_job_queue (as last seen, once it returned)
    procs,          \* live (not yet waited on) child processes, by pid
    spawned,        \* history: per target, the outputs a compile was started for
    step,           \* history: the last step the controller performed
    result,         \* what the public method returned
    calls,          \* history: number of public calls made
    removed,        \* history: the files the last clean() removed
    dir,            \* find_build_file: the `dir: &mut PathBuf` it walks with
    original,       \* find_build_file: `original`, the clone of dir at entry
    assumed,        \* directories get_assumed_filename_for_dir names a file for
    toml,           \* directories in which the file of the assumed name exists
    cwd,            \* the working directory of the process
    checked         \* history: the directories check_dir was called with

vars == <<file_mod_map, binaries, libraries, fs, call, pc, kind, idx, outM,
          job_queue, job_processes, procs, spawned, step, result, calls, removed,
          dir, original, assumed, toml, cwd, checked>>

\* The state of build-file discovery, over once a BuildFile is there.
discovery == <<dir, original, assumed, toml, cwd, checked>>

\* What no build step changes.
config == <<file_mod_map, binaries, libraries, removed, discovery>>

Library(n, s, d) == [name |-> n, is_static |-> s, is_dynamic |-> d]

BinaryConfigs ==
    {None} \cup {Some([i \in 1..k |-> i]) : k \in 0..MaxBins}

LibraryVecs(k) ==
    {v \in [1..k -> [name : LibNames, is_static : BOOLEAN, is_dynamic : BOOLEAN]] :
        \A i \in 1..k : v[i].name = i}

LibraryConfigs ==
    {None} \cup {Some(v) : v \in UNION {LibraryVecs(k) : k \in 0..MaxLibs}}

DeclaredBins == IF is_some(binaries) THEN Range(unwrap(binaries)) ELSE {}
DeclaredLibs == IF is_some(libraries) THEN {l.name : l \in Range(unwrap(libraries))} ELSE {}

FreeProc == [status |-> "free", target |-> 0, kind |-> "none", idx |-> 0]
NoStep == [ev |-> "none", kind |-> "none", idx |-> 0, t |-> 0, cmds |-> <<>>, excl |-> None]
Step(e, k, i, t) == [ev |-> e, kind |-> k, idx |-> i, t |-> t, cmds |-> <<>>, excl |-> None]
NoCall == [fn |-> "none", name |-> 0, jobs |-> 0]
NoFiles == [obj |-> {}, bin |-> {}, static |-> {}, dynamic |-> {}, failed |-> 0]

\* A PathBuf: absolute or relative, and its components below the root (or
\* below the empty path). Every path of the model is valid Unicode.
PathBuf(a, c) == [abs |-> a, comps |-> c]
RootDir == PathBuf(TRUE, <<>>)
Paths ==
    {PathBuf(a, c) : a \in BOOLEAN, c \in UNION {[1..n -> DirNames] : n \in 0..MaxDepth}}

\* The BuildFile is loaded: discovery is over, the process in its root.
InitDiscovered ==
    /\ dir = RootDir
    /\ original = RootDir
    /\ assumed = {RootDir}
    /\ toml = {RootDir}
    /\ cwd = RootDir
    /\ checked = <<RootDir>>

InitControl ==
    /\ call = NoCall
    /\ pc = "idle"
    /\ kind = "none"
    /\ idx = 0
    /\ outM = None
    /\ job_queue = <<>>
    /\ job_processes = <<>>
    /\ procs = [p \in Pids |-> FreeProc]
    /\ spawned = [t \in Targets |-> <<>>]
    /\ step = NoStep
    /\ result = NoResult
    /\ calls = 0
    /\ removed = NoFiles
    /\ InitDiscovered

InitConfig ==
    /\ file_mod_map \in [Targets -> Times]
    /\ binaries \in BinaryConfigs
    /\ libraries \in LibraryConfigs

\* Before build(): any objects, any declared binary, any library path.
Init ==
    /\ InitConfig
    /\ fs \in [obj : SUBSET Targets, bin : SUBSET DeclaredBins,
               libpath : SUBSET DeclaredLibs, static : {{}}, dynamic : {{}}]
    /\ InitControl


\* Before clean(): any subset of the files clean() looks at exists, next to
\* every library's own path, which clean() is not to touch. clean() reads
\* neither a modified time nor a library's static/dynamic request, which
\* are left at one value.
InitClean ==
    /\ file_mod_map = [t \in Targets |-> 1]
    /\ binaries \in BinaryConfigs
    /\ libraries \in {l \in LibraryConfigs :
                        is_some(l) => \A i \in 1..Len(unwrap(l)) :
                            unwrap(l)[i].is_static /\ ~unwrap(l)[i].is_dynamic}
    /\ fs \in [obj : SUBSET Targets, bin : SUBSET DeclaredBins,
               libpath : {DeclaredLibs}, static : SUBSET DeclaredLibs,
               dynamic : SUBSET DeclaredLibs]
    /\ InitControl

\* ------------------------------------------------------- build_object_queue
\* BTreeSet::insert on the ascending sequence of the set's elements.
RECURSIVE BTreeInsert(_, _)
BTreeInsert(q, t) ==
    IF q = <<>> THEN <<t>>
    ELSE IF t = Head(q) THEN q
    ELSE IF t < Head(q) THEN <<t>> \o q
    ELSE <<Head(q)>> \o BTreeInsert(Tail(q), t)

\* line 93: the test of the branch where the output exists.
StaleExistingMut(modtime, m, objExists) == modtime >= m \/ ~objExists
StaleExisting(modtime, m, objExists) == modtime > m \/ ~objExists

\* line 99: the test of the branch where the output does not exist.
StaleMissingMut(modtime, objExists) == ~objExists \/ modtime > 1
StaleMissing(modtime, objExists) == ~objExists

\* lines 92-96: the loop over file_mod_map, keys ascending, from key t on.
\* meta is what fs::metadata(..)?.modified()? gives: None when it fails.
RECURSIVE ScanExisting(_, _, _, _, _)
ScanExisting(t, queue, meta, fmm, objs) ==
    IF t > NumTargets THEN [tag |-> "Ok", queue |-> queue]
    ELSE IF meta = None THEN [tag |-> "Err", queue |-> <<>>]
    ELSE ScanExisting(t + 1,
                      IF StaleExisting(fmm[t], unwrap(meta), t \in objs)
                          THEN BTreeInsert(queue, t) ELSE queue,
                      meta, fmm, objs)

\* lines 98-102
RECURSIVE ScanMissing(_, _, _, _)
ScanMissing(t, queue, fmm, objs) ==
    IF t > NumTargets THEN [tag |-> "Ok", queue |-> queue]
    ELSE ScanMissing(t + 1,
                     IF StaleMissing(fmm[t], t \in objs)
                         THEN BTreeInsert(queue, t) ELSE queue,
                     fmm, objs)

\* lines 86-105
build_object_queue(exists, meta, fmm, objs) ==
    IF exists THEN ScanExisting(1, <<>>, meta, fmm, objs)
    ELSE ScanMissing(1, <<>>, fmm, objs)

\* Buildable::path(): a Binary's path is its name; a Library's is its own
\* path, a file of its own that neither the archiver nor the linker writes.
PathExists(k, name) ==
    IF k = "bin" THEN name \in fs.bin ELSE name \in fs.libpath

\* What the metadata read of an existing path can give.
MetaReads == {None} \cup {Some(m) : m \in OutTimes}

\* --------------------------------------------------------------- returning
Return(r) ==
    /\ pc' = "done"
    /\ result' = r

\* `build_object_queue(..)?` then the call of run_job_queue, for output
\* number i of the loop k, known by `name`.
QueueOutput(k, i, name) ==
    \E meta \in (IF PathExists(k, name) THEN MetaReads ELSE {None}) :
        LET q == build_object_queue(PathExists(k, name), meta, file_mod_map, fs.obj)
        IN  /\ kind' = k
            /\ idx' = i
            /\ outM' = IF PathExists(k, name) THEN meta ELSE None
            /\ IF q.tag = "Err"
                  THEN /\ Return(Err("Io"))
                       /\ step' = Step("queue_err", k, i, 0)
                       /\ job_queue' = <<>>
                  ELSE /\ pc' = "run_job_queue"
                       /\ result' = result
                       /\ step' = Step("queue", k, i, 0)
                       /\ job_queue' = q.queue
            /\ job_processes' = <<>>


\* ------------------------------------------------------------ run_job_queue
\* line 122: `job_processes.len() < jobs`
CanSpawnMut(n, w) == n <= w
CanSpawnLateMut(n, w) == n + 1 < w
CanSpawn(n, w) == n < w

\* lines 124, 131, 138: the `?` after spawn_build_object and yield_self
\* leaves run_job_queue at once when the value is an Err.
PropagatesMut(failed) == FALSE
Propagates(failed) == failed

FreePid == Min({p \in Pids : procs[p].status = "free"})
Last(s) == s[Len(s)]
Front(s) == SubSeq(s, 1, Len(s) - 1)

\* line 123: `job_queue.pop()` takes the tail away.
PopTailMut(q) == q
PopTail(q) == Front(q)

\* lines 124-125: what a spawn attempt does, in order: spawn_build_object
\* starts the process with spawn_cmd (line 83); when that gave a Job, info!
\* logs its command line.
SpawnEffects(spawn_ok) ==
    IF spawn_ok THEN <<"spawn_cmd", "info">> ELSE <<"spawn_cmd">>

\* lines 121-127: pop the tail of the queue, spawn its compile, push the Job.
Spawn ==
    /\ pc = "run_job_queue"
    /\ job_queue # <<>>
    /\ CanSpawn(Len(job_processes), call.jobs)
    /\ LET target == Last(job_queue)
       IN \E spawn_ok \in BOOLEAN :
            /\ job_queue' = PopTail(job_queue)
            /\ step' = [Step(IF spawn_ok THEN "spawn" ELSE "spawn_err", kind, idx, target)
                            EXCEPT !.cmds = SpawnEffects(spawn_ok)]
            /\ IF spawn_ok
                  THEN /\ procs' = [procs EXCEPT ![FreePid] =
                              [status |-> "running", target |-> target,
                               kind |-> kind, idx |-> idx]]
                       /\ job_processes' =
                              Append(job_processes, [target |-> target, pid |-> FreePid])
                       /\ spawned' = [spawned EXCEPT ![target] = Append(@, <<kind, idx>>)]
                  ELSE UNCHANGED <<procs, job_processes, spawned>>
            /\ IF Propagates(~spawn_ok)
                  THEN Return(Err("Spawn"))
                  ELSE UNCHANGED <<pc, result>>
    /\ UNCHANGED <<config, fs, call, kind, idx, outM, calls>>

\* lines 128-129: the budget is used up, enter the inner drain loop.
DrainEnter ==
    /\ pc = "run_job_queue"
    /\ job_queue # <<>>
    /\ ~CanSpawn(Len(job_processes), call.jobs)
    /\ pc' = "drain"
    /\ UNCHANGED <<config, fs, call, kind, idx, outM, job_queue, job_processes,
                   procs, spawned, step, result, calls>>

\* DrainExit leaving the inner loop with Jobs still in job_processes.
DrainExitMut ==
    /\ pc = "drain"
    /\ pc' = "run_job_queue"
    /\ UNCHANGED <<config, fs, call, kind, idx, outM, job_queue, job_processes,
                   procs, spawned, step, result, calls>>

\* line 129: the inner loop ends when job_processes is empty.
DrainExit ==
    /\ pc = "drain"
    /\ job_processes = <<>>
    /\ pc' = "run_job_queue"
    /\ UNCHANGED <<config, fs, call, kind, idx, outM, job_queue, job_processes,
                   procs, spawned, step, result, calls>>

\* lines 130 and 137: `job_processes.pop()` gives the Job pushed last.
PoppedJobMut(jobs) == jobs[1]
PoppedJob(jobs) == Last(jobs)

\* lines 130-131 and 137-138: pop the last Job and wait for it. The wait
\* blocks until the process has exited and fails on a nonzero exit.
Wait ==
    /\ \/ pc = "drain"
       \/ pc = "run_job_queue" /\ job_queue = <<>>
    /\ job_processes # <<>>
    /\ LET job == PoppedJob(job_processes)
           failed == procs[job.pid].status = "fail"
       IN /\ procs[job.pid].status \in {"ok", "fail"}
          /\ procs' = [procs EXCEPT ![job.pid] = FreeProc]
          /\ job_processes' = Front(job_processes)
          /\ step' = Step(IF failed THEN "wait_err" ELSE "wait", kind, idx, job.target)
          /\ IF Propagates(failed)
                THEN Return(Err("Exit"))
                ELSE UNCHANGED <<pc, result>>
    /\ UNCHANGED <<config, fs, call, kind, idx, outM, job_queue, spawned, calls>>

\* JobQueueDone without the final drain of lines 136-140.
JobQueueDoneMut ==
    /\ pc = "run_job_queue"
    /\ job_queue = <<>>
    /\ pc' = "link"
    /\ UNCHANGED <<config, fs, call, kind, idx, outM, job_queue, job_processes,
                   procs, spawned, step, result, calls>>

\* line 141: both loops are over, run_job_queue returns Ok(()).
JobQueueDone ==
    /\ pc = "run_job_queue"
    /\ job_queue = <<>>
    /\ job_processes = <<>>
    /\ pc' = "link"
    /\ UNCHANGED <<config, fs, call, kind, idx, outM, job_queue, job_processes,
                   procs, spawned, step, result, calls>>

\* A compiler process exits: with status 0 it has written its object file.
ProcExit ==
    \E p \in Pids : \E status \in {"ok", "fail"} :
        /\ procs[p].status = "running"
        /\ procs' = [procs EXCEPT ![p].status = status]
        /\ fs' = IF status = "ok"
                    THEN [fs EXCEPT !.obj = @ \cup {procs[p].target}]
                    ELSE fs
        /\ UNCHANGED <<config, call, pc, kind, idx, outM, job_queue, job_processes,
                       spawned, step, result, calls>>


\* ------------------------------------------------------------ the pipeline
\* lines 145-155: the exclusion list handed to object_list_as_string.
ExclusionMut(bins, name) ==
    IF Len(bins) = 1 THEN None
    ELSE Some(bins)
Exclusion(bins, name) ==
    IF Len(bins) = 1 THEN None
    ELSE Some(SelectSeq(bins, LAMBDA b : b # name))

\* lines 195-200: the commands build_library issues, in order.
LibraryPlanMut(lib) ==
    (IF lib.is_static THEN <<"ar">> ELSE <<>>) \o <<"shared">>
LibraryPlan(lib) ==
    (IF lib.is_static THEN <<"ar">> ELSE <<>>) \o
    (IF lib.is_dynamic THEN <<"shared">> ELSE <<>>)

\* ProjectDesc::object_list_as_string(filter): which binaries the object of
\* a target is attributable to is given by `attr`; the objects of all
\* targets are listed, but for those solely attributable to binaries of
\* the filter.
Attributions == [Targets -> SUBSET BinNames]
object_list_as_string(filter, attr) ==
    IF filter = None THEN Targets
    ELSE {t \in Targets : ~(attr[t] # {} /\ attr[t] \subseteq Range(unwrap(filter)))}

\* After the link step of an output: the loop of build() goes on with the
\* next output, a build_*_with_name call returns Ok(()).
AfterLinkMut(r) ==
    IF call.fn = "build"
       THEN /\ pc' = (IF kind = "bin" THEN "binaries" ELSE "libraries")
            /\ idx' = idx + 1
            /\ result' = result
       ELSE /\ Return(Ok)
            /\ idx' = idx
AfterLink(r) ==
    IF r.tag = "Err"
       THEN /\ Return(r)
            /\ idx' = idx
       ELSE IF call.fn = "build"
               THEN /\ pc' = (IF kind = "bin" THEN "binaries" ELSE "libraries")
                    /\ idx' = idx + 1
                    /\ result' = result
               ELSE /\ Return(Ok)
                    /\ idx' = idx

\* lines 144-173: build_binary, one synchronous link command.
BuildBinary ==
    /\ pc = "link"
    /\ kind = "bin"
    /\ LET name == unwrap(binaries)[idx]
       IN \E cmd_ok \in BOOLEAN :
            /\ step' = [ev |-> IF cmd_ok THEN "link" ELSE "link_err",
                        kind |-> kind, idx |-> idx, t |-> 0,
                        cmds |-> <<"link">>,
                        excl |-> Exclusion(unwrap(binaries), name)]
            /\ fs' = IF cmd_ok THEN [fs EXCEPT !.bin = @ \cup {name}] ELSE fs
            /\ AfterLink(IF cmd_ok THEN Ok ELSE Err("Link"))
    /\ UNCHANGED <<config, call, kind, outM, job_queue, job_processes, procs,
                   spawned, calls>>

\* lines 194-202: build_library, the archive and then the shared link;
\* `failed` is the position of the command that fails, 0 when none does.
BuildLibrary ==
    /\ pc = "link"
    /\ kind = "lib"
    /\ LET lib == unwrap(libraries)[idx]
           plan == LibraryPlan(lib)
       IN \E failed \in 0..Len(plan) :
            LET issued == IF failed = 0 THEN plan ELSE SubSeq(plan, 1, failed)
                done == IF failed = 0 THEN plan ELSE SubSeq(plan, 1, failed - 1)
            IN  /\ step' = [ev |-> IF failed = 0 THEN "link" ELSE "link_err",
                            kind |-> kind, idx |-> idx, t |-> 0,
                            cmds |-> issued, excl |-> None]
                /\ fs' = [fs EXCEPT
                            !.static = IF "ar" \in Range(done) THEN @ \cup {lib.name} ELSE @,
                            !.dynamic = IF "shared" \in Range(done) THEN @ \cup {lib.name} ELSE @]
                /\ AfterLink(IF failed = 0 THEN Ok ELSE Err("Link"))
    /\ UNCHANGED <<config, call, kind, outM, job_queue, job_processes, procs,
                   spawned, calls>>

\* lines 248-249: build(jobs) runs the before_script.
build(j) ==
    /\ pc = "idle"
    /\ call' = [fn |-> "build", name |-> 0, jobs |-> j]
    /\ calls' = calls + 1
    /\ \E script_ok \in BOOLEAN :
         IF script_ok
            THEN /\ pc' = "binaries"
                 /\ idx' = 1
                 /\ kind' = "bin"
                 /\ step' = Step("pre", "none", 0, 0)
                 /\ result' = result
            ELSE /\ Return(Err("Script"))
                 /\ step' = Step("pre_err", "none", 0, 0)
                 /\ UNCHANGED <<idx, kind>>
    /\ UNCHANGED <<config, fs, outM, job_queue, job_processes, procs, spawned>>

\* lines 111-113: the next binary of build_all_binaries.
NextBinary ==
    /\ pc = "binaries"
    /\ is_some(binaries)
    /\ idx <= Len(unwrap(binaries))
    /\ QueueOutput("bin", idx, unwrap(binaries)[idx])
    /\ UNCHANGED <<config, fs, call, procs, spawned, calls>>

\* lines 108-110 and 116: no binaries, or the loop is over.
BinariesDone ==
    /\ pc = "binaries"
    /\ IF is_some(binaries) THEN idx > Len(unwrap(binaries)) ELSE TRUE
    /\ pc' = "libraries"
    /\ kind' = "lib"
    /\ idx' = 1
    /\ UNCHANGED <<config, fs, call, outM, job_queue, job_processes, procs,
                   spawned, step, result, calls>>

\* lines 240-242: the next library of build_all_libraries.
NextLibrary ==
    /\ pc = "libraries"
    /\ is_some(libraries)
    /\ idx <= Len(unwrap(libraries))
    /\ QueueOutput("lib", idx, unwrap(libraries)[idx].name)
    /\ UNCHANGED <<config, fs, call, procs, spawned, calls>>

\* lines 237-239 and 245: no libraries, or the loop is over.
LibrariesDone ==
    /\ pc = "libraries"
    /\ IF is_some(libraries) THEN idx > Len(unwrap(libraries)) ELSE TRUE
    /\ pc' = "after_script"
    /\ UNCHANGED <<config, fs, call, kind, idx, outM, job_queue, job_processes,
                   procs, spawned, step, result, calls>>

\* lines 252-253: the after_script, then Ok(()).
AfterScript ==
    /\ pc = "after_script"
    /\ \E script_ok \in BOOLEAN :
         /\ Return(IF script_ok THEN Ok ELSE Err("Script"))
         /\ step' = Step(IF script_ok THEN "post" ELSE "post_err", "none", 0, 0)
    /\ UNCHANGED <<config, fs, call, kind, idx, outM, job_queue, job_processes,
                   procs, spawned, calls>>

\* ------------------------------------------------------- build_*_with_name
\* Iterator::find: the index of the first element with the name, 0 for None.
Find(names, name) ==
    IF \E i \in 1..Len(names) : names[i] = name
       THEN Min({i \in 1..Len(names) : names[i] = name})
       ELSE 0

\* What a build_*_with_name call does with an Option<Vec<..>> `section`
\* whose elements are named `names`: lines 205-217 and 221-233.
WithName(k, what, section, names, name) ==
    IF is_some(section)
       THEN IF Find(names, name) # 0
               THEN QueueOutput(k, Find(names, name), name)
               ELSE /\ Return(Ok)
                    /\ step' = Step("no_match", k, 0, 0)
                    /\ UNCHANGED <<kind, idx, outM, job_queue, job_processes>>
       ELSE /\ Return(TargetNotFound(what, name))
            /\ step' = Step("not_found", k, 0, 0)
            /\ UNCHANGED <<kind, idx, outM, job_queue, job_processes>>

\* lines 220-234
build_binary_with_name(name, j) ==
    /\ pc = "idle"
    /\ call' = [fn |-> "build_binary_with_name", name |-> name, jobs |-> j]
    /\ calls' = calls + 1
    /\ WithName("bin", "binary", binaries,
                IF is_some(binaries) THEN unwrap(binaries) ELSE <<>>, name)
    /\ UNCHANGED <<config, fs, procs, spawned>>

\* lines 204-218
build_library_with_name(name, j) ==
    /\ pc = "idle"
    /\ call' = [fn |-> "build_library_with_name", name |-> name, jobs |-> j]
    /\ calls' = calls + 1
    /\ WithName("lib", "library", libraries,
                IF is_some(libraries)
                   THEN [i \in 1..Len(unwrap(libraries)) |-> unwrap(libraries)[i].name]
                   ELSE <<>>, name)
    /\ UNCHANGED <<config, fs, procs, spawned>>

\* -------------------------------------------------------------------- spec
Next ==
    \/ \E j \in Jobs : build(j)
    \/ \E j \in Jobs : \E name \in BinNames : build_binary_with_name(name, j)
    \/ \E j \in Jobs : \E name \in LibNames : build_library_with_name(name, j)
    \/ NextBinary
    \/ BinariesDone
    \/ NextLibrary
    \/ LibrariesDone
    \/ Spawn
    \/ DrainEnter
    \/ DrainExit
    \/ Wait
    \/ JobQueueDone
    \/ ProcExit
    \/ BuildBinary
    \/ BuildLibrary
    \/ AfterScript

Spec == Init /\ [][Next]_vars


\* ------------------------------------------------------ run_job_queue alone
\* run_job_queue(job_queue, jobs) entered with any queue build_object_queue
\* can return (ascending, duplicate-free) and any worker budget.
SortedQueues ==
    {q \in UNION {[1..n -> Targets] : n \in 0..NumTargets} :
        \A i \in 1..Len(q) : \A j \in 1..Len(q) : i < j => q[i] < q[j]}

InitSched ==
    /\ file_mod_map = [t \in Targets |-> 1]
    /\ binaries = Some(<<1>>)
    /\ libraries = None
    /\ fs \in [obj : SUBSET Targets, bin : {{}}, libpath : {{}},
               static : {{}}, dynamic : {{}}]
    /\ \E j \in Jobs : call = [fn |-> "build_binary_with_name", name |-> 1, jobs |-> j]
    /\ pc = "run_job_queue"
    /\ kind = "bin"
    /\ idx = 1
    /\ outM = None
    /\ job_queue \in SortedQueues
    /\ job_processes = <<>>
    /\ procs = [p \in Pids |-> FreeProc]
    /\ spawned = [t \in Targets |-> <<>>]
    /\ step = Step("queue", "bin", 1, 0)
    /\ result = NoResult
    /\ calls = 1
    /\ removed = NoFiles
    /\ InitDiscovered

NextSched ==
    \/ Spawn
    \/ DrainEnter
    \/ DrainExit
    \/ Wait
    \/ JobQueueDone
    \/ ProcExit

SpecSched == InitSched /\ [][NextSched]_vars

\* run_job_queue is sequential code and goes on whenever it can; a wait
\* blocks until the process has exited, and every process exits in the end.
Controller ==
    \/ Spawn
    \/ DrainEnter
    \/ DrainExit
    \/ Wait
    \/ JobQueueDone

SpecSchedFair ==
    /\ InitSched
    /\ [][NextSched]_vars
    /\ WF_vars(Controller)
    /\ WF_vars(ProcExit)

\* --------------------------------------------------- build_object_queue alone
\* build_object_queue applied to one declared binary, over every
\* file_mod_map, every set of existing objects and every state of the output.
InitQueue ==
    /\ file_mod_map \in [Targets -> Times]
    /\ binaries = Some(<<1>>)
    /\ libraries = None
    /\ fs \in [obj : SUBSET Targets, bin : SUBSET {1}, libpath : {{}},
               static : {{}}, dynamic : {{}}]
    /\ InitControl

NextQueue ==
    \E j \in Jobs : build_binary_with_name(1, j)

SpecQueue == InitQueue /\ [][NextQueue]_vars

\* ---------------------------------------------------------- find_build_file
\* PathBuf::pop: truncates to the parent; FALSE, and no change, when there
\* is none (the root, or the empty relative path).
HasParent(d) == d.comps # <<>>
Parent(d) == PathBuf(d.abs, Front(d.comps))

\* Path::to_str: Some(text) for a path that is valid Unicode.
to_str(p) == Some(p)

\* line 297: the path the NoAssumedToml error is made of.
CarriedMut == dir
Carried == original
NoAssumedToml(text) == [tag |-> "Err", kind |-> "NoAssumedToml", what |-> "", name |-> text]

\* lines 300-307: get_assumed_filename_for_dir(dir) names a file and
\* dir.join(assumed) exists.
check_dir(d) == d \in assumed /\ d \in toml

\* lines 290-292: check_dir gives Some: change the working directory, load
\* the BuildFile from there; either can fail.
Found ==
    /\ pc = "find"
    /\ check_dir(dir)
    /\ checked' = Append(checked, dir)
    /\ \E cd_ok \in BOOLEAN : \E load_ok \in BOOLEAN :
         /\ cwd' = IF cd_ok THEN dir ELSE cwd
         /\ IF ~cd_ok THEN Return(Err("Io"))
            ELSE IF ~load_ok THEN Return(Err("FromFile"))
            ELSE /\ pc' = "idle"
                 /\ result' = Ok
    /\ UNCHANGED <<file_mod_map, binaries, libraries, removed, fs, call, kind, idx,
                   outM, job_queue, job_processes, procs, spawned, step, calls,
                   dir, original, assumed, toml>>

\* line 293: check_dir gives None and dir.pop() is true: go on in the parent.
Ascend ==
    /\ pc = "find"
    /\ ~check_dir(dir)
    /\ HasParent(dir)
    /\ checked' = Append(checked, dir)
    /\ dir' = Parent(dir)
    /\ UNCHANGED <<file_mod_map, binaries, libraries, removed, fs, call, pc, kind,
                   idx, outM, job_queue, job_processes, procs, spawned, step,
                   result, calls, original, assumed, toml, cwd>>

\* lines 293-297: check_dir gives None and dir.pop() is false: break, bail.
NotFound ==
    /\ pc = "find"
    /\ ~check_dir(dir)
    /\ ~HasParent(dir)
    /\ checked' = Append(checked, dir)
    /\ Return(NoAssumedToml(unwrap(to_str(Carried))))
    /\ UNCHANGED <<file_mod_map, binaries, libraries, removed, fs, call, kind, idx,
                   outM, job_queue, job_processes, procs, spawned, step, calls,
                   dir, original, assumed, toml, cwd>>

\* The directories from d up to the root (or the empty path), d included.
RECURSIVE AncestorsOrSelf(_)
AncestorsOrSelf(d) ==
    IF HasParent(d) THEN {d} \cup AncestorsOrSelf(Parent(d)) ELSE {d}

\* find_build_file(dir) entered with any path, any of its levels holding a
\* description file or not; line 288 has made `original`.
InitFind ==
    /\ file_mod_map = [t \in Targets |-> 1]
    /\ binaries = None
    /\ libraries = None
    /\ fs = [obj |-> {}, bin |-> {}, libpath |-> {}, static |-> {}, dynamic |-> {}]
    /\ call = [fn |-> "find_build_file", name |-> 0, jobs |-> 0]
    /\ pc = "find"
    /\ kind = "none"
    /\ idx = 0
    /\ outM = None
    /\ job_queue = <<>>
    /\ job_processes = <<>>
    /\ procs = [p \in Pids |-> FreeProc]
    /\ spawned = [t \in Targets |-> <<>>]
    /\ step = NoStep
    /\ result = NoResult
    /\ calls = 1
    /\ removed = NoFiles
    /\ dir \in Paths
    /\ original = dir
    /\ assumed \in SUBSET AncestorsOrSelf(dir)
    /\ toml \in SUBSET AncestorsOrSelf(dir)
    /\ cwd = RootDir
    /\ checked = <<>>

NextFind ==
    \/ Found
    \/ Ascend
    \/ NotFound

\* The loop is sequential code: it goes on as long as it can.
SpecFind == InitFind /\ [][NextFind]_vars /\ WF_vars(NextFind)

\* -------------------------------------------------------------------- clean
\* lines 257-281: the files clean() tries to remove, those that exist among
\* the objects of file_mod_map's keys, the declared binaries and both
\* library files of each declared library.
CleanCandidatesMut ==
    [obj |-> fs.obj \cap Targets, bin |-> fs.bin \cap DeclaredBins,
     static |-> fs.static \cap DeclaredLibs, dynamic |-> {}, failed |-> 0]
CleanCandidates ==
    [obj |-> fs.obj \cap Targets, bin |-> fs.bin \cap DeclaredBins,
     static |-> fs.static \cap DeclaredLibs, dynamic |-> fs.dynamic \cap DeclaredLibs,
     failed |-> 0]

\* The sets of files whose fs::remove_file succeeds: any part of `c`;
\* `failed` counts the remove_file calls that did not.
Removals(c) ==
    {[r EXCEPT !.failed = Cardinality(c.obj \ r.obj) + Cardinality(c.bin \ r.bin)
                          + Cardinality(c.static \ r.static)
                          + Cardinality(c.dynamic \ r.dynamic)] :
        r \in [obj : SUBSET c.obj, bin : SUBSET c.bin, static : SUBSET c.static,
               dynamic : SUBSET c.dynamic, failed : {0}]}

\* lines 256-284: clean(). A remove_file that fails is skipped.
clean ==
    /\ pc \in {"idle", "done"}
    /\ calls < MaxCalls
    /\ \E rm \in Removals(CleanCandidates) :
         /\ fs' = [fs EXCEPT !.obj = @ \ rm.obj, !.bin = @ \ rm.bin,
                             !.static = @ \ rm.static, !.dynamic = @ \ rm.dynamic]
         /\ removed' = rm
    /\ call' = [fn |-> "clean", name |-> 0, jobs |-> 0]
    /\ calls' = calls + 1
    /\ step' = Step("clean", "none", 0, 0)
    /\ Return(Ok)
    /\ UNCHANGED <<file_mod_map, binaries, libraries, kind, idx, outM, job_queue,
                   job_processes, procs, spawned, discovery>>

NextClean == clean

SpecClean == InitClean /\ [][NextClean]_vars


\* =================================================================== claims
\* The compile processes spawned and not yet waited on.
InFlight == {p \in Pids : procs[p].status # "free"}

\* run_job_queue has seen a failure: a spawn gave an Err, or a wait did.
SchedFailed == step.ev \in {"spawn_err", "wait_err"}

\* C1: with a worker budget W >= 1, the number of compile jobs spawned and
\* not yet waited on never exceeds W.
C1_InFlightAtMostW ==
    call.jobs >= 1 => Cardinality(InFlight) <= call.jobs

\* The budget is used up while targets remain in the queue.
C1_Witness ==
    /\ call.jobs >= 1
    /\ Cardinality(InFlight) = call.jobs
    /\ job_queue # <<>>

\* C2 (as stated): when run_job_queue returns an error, every job of the
\* batch that was in flight has been waited on.
C2_SiblingsAwaited ==
    (pc = "done" /\ result.tag = "Err") => InFlight = {}

\* C3: once run_job_queue has seen a failure (a spawn error, or a wait that
\* reports a nonzero exit) it has returned an Err, whatever is left in the
\* queue, and no compile process is spawned afterwards.
C3_FailFast ==
    /\ [](SchedFailed => pc = "done" /\ result.tag = "Err")
    /\ [][SchedFailed =>
            /\ spawned' = spawned
            /\ \A p \in Pids : procs'[p].status = "running" => procs[p].status = "running"]_vars

\* A wait reported a failure while a target was still queued.
C3_Witness ==
    /\ step.ev = "wait_err"
    /\ pc = "done"
    /\ job_queue # <<>>


IsAscending(q) == \A i \in 1..Len(q) : \A j \in 1..Len(q) : i < j => q[i] < q[j]
NoDuplicates(q) == \A i \in 1..Len(q) : \A j \in 1..Len(q) : i # j => q[i] # q[j]

\* C4 (as stated): within one build() call no target is spawned for
\* compilation more than once, over all declared outputs.
C4_OneJobPerObject ==
    call.fn = "build" => \A t \in Targets : Len(spawned[t]) <= 1

\* C4 (amended): within one build() call a target is spawned at most once
\* for each declared output the call processes, and no two compile
\* processes in flight at the same time have the same target.
C4_OneJobPerOutput ==
    call.fn = "build" =>
        /\ \A t \in Targets : NoDuplicates(spawned[t])
        /\ \A p \in InFlight : \A q \in InFlight :
               p # q => procs[p].target # procs[q].target

\* One build() call has compiled the same target for two outputs while
\* two compiles of different targets were in flight.
C4_Witness ==
    /\ call.fn = "build"
    /\ \E t \in Targets : Len(spawned[t]) = 2
    /\ Cardinality(InFlight) = 2

\* C5 (as stated): a build_*_with_name call whose name no declared binary
\* (library) has fails with TargetNotFound(kind, name), the section being
\* absent or not, and spawns nothing.
C5_NotFoundIsError ==
    /\ (call.fn = "build_binary_with_name" /\ call.name \notin DeclaredBins) =>
            /\ result = TargetNotFound("binary", call.name)
            /\ \A t \in Targets : spawned[t] = <<>>
    /\ (call.fn = "build_library_with_name" /\ call.name \notin DeclaredLibs) =>
            /\ result = TargetNotFound("library", call.name)
            /\ \A t \in Targets : spawned[t] = <<>>

\* C6: when the output exists with modified time M, build_object_queue
\* returns exactly the targets whose source is strictly newer than M or
\* whose object is missing, in ascending order.
C6_ExistingOutput ==
    (step.ev = "queue" /\ outM # None) =>
        /\ IsAscending(job_queue)
        /\ Range(job_queue) =
               {t \in Targets : file_mod_map[t] > unwrap(outM) \/ t \notin fs.obj}

\* The output exists; one target with an object is queued for its time,
\* another, not newer than the output, is left out.
C6_Witness ==
    /\ step.ev = "queue"
    /\ outM # None
    /\ \E t \in Range(job_queue) : t \in fs.obj
    /\ \E t \in Targets : t \notin Range(job_queue) /\ file_mod_map[t] = unwrap(outM)

\* C7: when the output does not exist, build_object_queue returns exactly
\* the targets whose object is missing, whatever the source times.
C7_MissingOutput ==
    (step.ev = "queue" /\ ~PathExists(kind, call.name)) =>
        /\ IsAscending(job_queue)
        /\ Range(job_queue) = Targets \ fs.obj

\* The output is missing; a target is queued, and a target with an object
\* and the newest source time is not.
C7_Witness ==
    /\ step.ev = "queue"
    /\ ~PathExists(kind, call.name)
    /\ job_queue # <<>>
    /\ \E t \in fs.obj : file_mod_map[t] = NumTargets

\* The step that failed, and the error each failing step returns.
Failed == step.ev \in {"pre_err", "queue_err", "spawn_err", "wait_err", "link_err", "post_err"}
ErrorOf(ev) ==
    CASE ev \in {"pre_err", "post_err"} -> Err("Script")
      [] ev = "queue_err" -> Err("Io")
      [] ev = "spawn_err" -> Err("Spawn")
      [] ev = "wait_err" -> Err("Exit")
      [] ev = "link_err" -> Err("Link")
      [] OTHER -> NoResult

\* C8: in build(), a failing step makes build() return that failure, and
\* nothing is done afterwards: no spawn, no link or archive command, no
\* later output, no post-script.
C8_ShortCircuit ==
    /\ []((call.fn = "build" /\ Failed) => (pc = "done" /\ result = ErrorOf(step.ev)))
    /\ [][(call.fn = "build" /\ pc = "done" /\ result.tag = "Err") =>
            /\ step' = step
            /\ spawned' = spawned
            /\ fs'.bin = fs.bin /\ fs'.static = fs.static /\ fs'.dynamic = fs.dynamic
            /\ <<pc, result, kind, idx>>' = <<pc, result, kind, idx>>]_vars

\* The link of the first of two binaries failed, a library being declared.
C8_Witness ==
    /\ call.fn = "build"
    /\ pc = "done"
    /\ step.ev = "link_err"
    /\ kind = "bin" /\ idx = 1
    /\ Len(unwrap(binaries)) = 2
    /\ DeclaredLibs # {}

\* The place of an output in the order build() processes them: binaries in
\* declaration order, then libraries in declaration order.
NumBins == IF is_some(binaries) THEN Len(unwrap(binaries)) ELSE 0
NumLibs == IF is_some(libraries) THEN Len(unwrap(libraries)) ELSE 0
Pos(st) == IF st.kind = "bin" THEN st.idx ELSE NumBins + st.idx
SameOutput(a, b) == a.kind = b.kind /\ a.idx = b.idx
Compiling == {"queue", "spawn", "wait"}

\* What the step before a step of build() must have been.
StageOrder(prev, cur) ==
    CASE cur.ev \in {"queue", "queue_err"} ->
             \/ prev.ev = "pre" /\ Pos(cur) = 1
             \/ prev.ev = "link" /\ Pos(cur) = Pos(prev) + 1
      [] cur.ev \in {"spawn", "spawn_err", "wait", "wait_err", "link", "link_err"} ->
             prev.ev \in Compiling /\ SameOutput(prev, cur)
      [] cur.ev \in {"post", "post_err"} ->
             \/ prev.ev = "pre" /\ NumBins + NumLibs = 0
             \/ prev.ev = "link" /\ Pos(prev) = NumBins + NumLibs
      [] OTHER -> FALSE

\* C9: the stages of build() are strictly ordered: pre-script, then each
\* binary in declaration order (queue, compile, link), then each library
\* likewise, then the post-script; the compile jobs in flight are all of
\* the one output being processed, and none is in flight when it is linked.
C9_StagesInOrder ==
    /\ [](call.fn = "build" =>
            /\ \A p \in InFlight : procs[p].kind = kind /\ procs[p].idx = idx
            /\ (step.kind = "bin" => step.idx \in 1..NumBins)
            /\ (step.kind = "lib" => step.idx \in 1..NumLibs)
            /\ (step.ev \in {"link", "link_err", "post", "post_err"} => InFlight = {}))
    /\ [][(call.fn = "build" /\ step' # step) => StageOrder(step, step')]_vars

\* build() ran its post-script after two binaries and a library, each of
\* which had the same target compiled.
C9_Witness ==
    /\ call.fn = "build"
    /\ step.ev = "post"
    /\ NumBins = 2 /\ NumLibs = 1
    /\ \E t \in Targets : Len(spawned[t]) = 3

\* None of the files clean() is to remove exists.
NoneLeft == fs.obj = {} /\ fs.bin = {} /\ fs.static = {} /\ fs.dynamic = {}

\* C10: clean() always returns Ok; when every removal succeeds no object
\* of a discovered target, declared binary or declared library file is
\* left, and nothing else is removed; a clean() with nothing left to
\* remove removes nothing and returns Ok.
C10_Clean ==
    /\ [](call.fn = "clean" => (pc = "done" /\ result = Ok))
    /\ [][/\ call'.fn = "clean" /\ result' = Ok
          /\ fs'.libpath = fs.libpath
          /\ fs'.obj = fs.obj \ removed'.obj /\ fs'.bin = fs.bin \ removed'.bin
          /\ fs'.static = fs.static \ removed'.static
          /\ fs'.dynamic = fs.dynamic \ removed'.dynamic
          /\ (removed'.failed = 0 => NoneLeft')
          /\ (NoneLeft => (removed' = NoFiles /\ fs' = fs))]_vars

\* A first clean() removed an object, a binary and both files of a
\* library, no removal failing, and left the library's own path.
C10_Witness ==
    /\ calls = 1
    /\ call.fn = "clean"
    /\ removed.obj # {} /\ removed.bin # {}
    /\ removed.static # {} /\ removed.dynamic # {}
    /\ removed.failed = 0
    /\ fs.libpath # {}

\* C11: with more than one binary declared, the link of binary X is composed
\* with an exclusion list of exactly the declared binaries other than X, so
\* that, however the objects are attributed, X's object list has the objects
\* attributable to X and those attributable to no binary, and none of those
\* attributable to other binaries only; with one binary declared there is
\* no exclusion list and the object list is that of all targets.
C11_ExclusionList ==
    (step.ev \in {"link", "link_err"} /\ step.kind = "bin") =>
        LET X == unwrap(binaries)[step.idx]
        IN IF NumBins > 1
              THEN /\ is_some(step.excl)
                   /\ Len(unwrap(step.excl)) = NumBins - 1
                   /\ Range(unwrap(step.excl)) = DeclaredBins \ {X}
                   /\ \A attr \in Attributions :
                        \A t \in Targets :
                          /\ (attr[t] = {} \/ X \in attr[t]) =>
                                 t \in object_list_as_string(step.excl, attr)
                          /\ (attr[t] # {} /\ attr[t] \subseteq DeclaredBins \ {X}) =>
                                 t \notin object_list_as_string(step.excl, attr)
              ELSE /\ step.excl = None
                   /\ \A attr \in Attributions :
                        object_list_as_string(step.excl, attr) = Targets

\* build() has linked the second of two binaries, after the first.
C11_Witness ==
    /\ call.fn = "build"
    /\ step.ev = "link" /\ step.kind = "bin" /\ step.idx = 2
    /\ NumBins = 2
    /\ step.excl = Some(<<1>>)

\* How many times the command c is in the sequence cmds.
Count(cmds, c) == Cardinality({i \in 1..Len(cmds) : cmds[i] = c})

\* One library asking for the static form only, no binary, no object.
StaticOnlyLibrary ==
    /\ NumBins = 0
    /\ libraries = Some(<<Library(1, TRUE, FALSE)>>)
    /\ fs.obj = {}

\* C12: a library whose build_library ran without error had the archiver
\* invoked once if it asks for the static form and never otherwise, and the
\* shared link invoked once if it asks for the dynamic form and never
\* otherwise, the archiver first; library files are written by those
\* commands only. From a static-only library with no object existing and
\* as many workers as sources (two), every source is queued, all compiles
\* are spawned before the first wait, none is in flight when the archiver
\* is invoked, once, and no shared link is ever issued.
C12_LibraryForms ==
    /\ []((step.ev = "link" /\ step.kind = "lib") =>
            LET lib == unwrap(libraries)[step.idx]
            IN /\ Count(step.cmds, "ar") = (IF lib.is_static THEN 1 ELSE 0)
               /\ Count(step.cmds, "shared") = (IF lib.is_dynamic THEN 1 ELSE 0)
               /\ Len(step.cmds) = Count(step.cmds, "ar") + Count(step.cmds, "shared")
               /\ (Len(step.cmds) = 2 => step.cmds[1] = "ar")
               /\ (lib.is_static => lib.name \in fs.static)
               /\ (lib.is_dynamic => lib.name \in fs.dynamic))
    /\ [][(fs'.static # fs.static \/ fs'.dynamic # fs.dynamic) =>
            /\ step' # step /\ step'.kind = "lib" /\ step'.ev \in {"link", "link_err"}
            /\ fs'.static \ fs.static \subseteq
                   {unwrap(libraries)[step'.idx].name} \ fs.static
            /\ fs'.dynamic \ fs.dynamic \subseteq
                   {unwrap(libraries)[step'.idx].name} \ fs.dynamic]_vars
    /\ (StaticOnlyLibrary =>
            []((call.fn # "none" /\ call.jobs = NumTargets) =>
                /\ (step.ev = "queue" => job_queue = [t \in 1..NumTargets |-> t])
                /\ (step.ev \in {"wait", "wait_err", "link", "link_err"} =>
                        \A t \in Targets : spawned[t] = <<(<<"lib", 1>>)>>)
                /\ (step.ev \in {"link", "link_err"} =>
                        InFlight = {} /\ step.cmds = <<"ar">>)
                /\ fs.dynamic = {}
                /\ Count(step.cmds, "shared") = 0))

\* The static-only library was archived, once, after the compiles of both
\* sources had been in flight together and waited on, with as many workers.
C12_Witness ==
    /\ NumBins = 0
    /\ libraries = Some(<<Library(1, TRUE, FALSE)>>)
    /\ call.fn = "build" /\ call.jobs = NumTargets
    /\ step.ev = "link" /\ step.kind = "lib"
    /\ step.cmds = <<"ar">>
    /\ \A t \in Targets : spawned[t] = <<(<<"lib", 1>>)>>
    /\ fs.obj = Targets /\ fs.static = {1} /\ fs.dynamic = {}

\* The i-th directory of the walk from d upward, d being the first.
RECURSIVE Level(_, _)
Level(d, i) == IF i = 1 THEN d ELSE Level(Parent(d), i - 1)
Depth(d) == Len(d.comps) + 1
Matches == {d \in AncestorsOrSelf(original) : d \in assumed /\ d \in toml}

\* C13: find_build_file terminates; it tests the starting directory first
\* and then each ancestor in upward order; when it succeeds the project
\* root (and working directory) is the nearest level holding its
\* description file; when no level matches it fails with NoAssumedToml
\* carrying the starting directory, and only then.
C13_Discovery ==
    /\ <>(pc # "find")
    /\ [][pc' = "find" => Len(dir'.comps) < Len(dir.comps)]_vars
    /\ [](/\ Len(checked) <= Depth(original)
          /\ \A i \in 1..Len(checked) : checked[i] = Level(original, i)
          /\ \A i \in 1..(Len(checked) - 1) : checked[i] \notin Matches)
    /\ [](pc = "idle" =>
            /\ result = Ok
            /\ dir \in Matches /\ cwd = dir /\ Last(checked) = dir
            /\ \A d \in Matches : Len(d.comps) <= Len(dir.comps))
    /\ []((pc = "done" /\ Matches = {}) =>
            /\ result = NoAssumedToml(original)
            /\ Len(checked) = Depth(original)
            /\ cwd = RootDir)
    /\ []((pc = "done" /\ Matches # {}) =>
            /\ result \in {Err("Io"), Err("FromFile")}
            /\ Last(checked) \in Matches)

\* No level of a two-component path matched: the walk stopped at the root
\* and the error carries the path it started at.
C13_Witness ==
    /\ pc = "done"
    /\ result.kind = "NoAssumedToml"
    /\ Len(original.comps) = MaxDepth
    /\ dir = RootDir
    /\ Len(checked) = MaxDepth + 1

\* The targets run_job_queue has had a compile spawned for, and the number
\* of targets its queue was entered with, as long as no spawn has failed.
Started == {t \in Targets : spawned[t] # <<>>}
Entered == Len(job_queue) + Cardinality(Started)

\* C14: when the worker budget is at least the number of queued targets,
\* a wait happens only once every queued target has been spawned: the queue
\* is empty at each wait, and the inner drain loop is never entered.
C14_AllSpawnedFirst ==
    /\ [](call.jobs >= Entered =>
             /\ pc # "drain"
             /\ (step.ev \in {"wait", "wait_err"} => job_queue = <<>>))
    /\ [][(call.jobs >= Entered /\ step' # step /\ step'.ev \in {"wait", "wait_err"}) =>
             /\ job_queue = <<>>
             /\ \A t \in Started : Len(spawned[t]) = 1]_vars

\* Both targets of the queue were spawned, the budget being two, and the
\* first wait has been done.
C14_Witness ==
    /\ call.jobs = NumTargets
    /\ Started = Targets
    /\ step.ev = "wait"
    /\ Len(job_processes) = NumTargets - 1

\* The controller's step is an attempt to spawn a compile.
SpawnAttempt(st) == st.ev \in {"spawn", "spawn_err"}

SpawnedFor(k, i) == {t \in Targets : <<k, i>> \in Range(spawned[t])}

\* C16: a link or archive command is issued with no compile in flight and
\* the queue of its output empty, every target of that queue having been
\* spawned for the output and waited on with success (its object exists);
\* until then the targets of the queue are those left in it and those
\* spawned; an empty queue is followed at once by the link or archive
\* command of the same output, no compile being spawned.
C16_LinkAfterCompiles ==
    /\ [](step.ev \in {"link", "link_err"} =>
             /\ InFlight = {}
             /\ job_queue = <<>> /\ job_processes = <<>>
             /\ SpawnedFor(step.kind, step.idx) \subseteq fs.obj)
    /\ [][(step.ev \in Compiling /\ step' # step /\ step'.ev # "spawn_err") =>
             /\ SameOutput(step, step')
             /\ (Range(job_queue) \cup SpawnedFor(step.kind, step.idx))'
                    = Range(job_queue) \cup SpawnedFor(step.kind, step.idx)]_vars
    /\ [][(step.ev = "queue" /\ job_queue = <<>> /\ step' # step) =>
             /\ step'.ev \in {"link", "link_err"}
             /\ SameOutput(step, step')
             /\ spawned' = spawned]_vars

\* build() linked its second binary without compiling anything for it,
\* after it had compiled every target for the first.
C16_Witness ==
    /\ call.fn = "build"
    /\ step.ev = "link" /\ step.kind = "bin" /\ step.idx = 2
    /\ SpawnedFor("bin", 1) = Targets
    /\ SpawnedFor("bin", 2) = {}

\* The places of the effect e in the sequence of effects of a step.
Places(cmds, e) == {i \in 1..Len(cmds) : cmds[i] = e}

\* C17 (as stated): for every compile job run_job_queue starts, its command
\* line is logged before its compiler process is started.
C17_LoggedBeforeStart ==
    step.ev = "spawn" =>
        \A i \in Places(step.cmds, "spawn_cmd") :
            \E j \in Places(step.cmds, "info") : j < i

\* C18: run_job_queue returns the error of one failure, the first it
\* observes, and later failures of siblings change nothing of it; jobs are
\* waited on last-spawned-first, so that the job whose failure is returned
\* was spawned after every job still in flight, failed or not: it is the
\* most recently spawned failing job of its batch.
C18_FirstFailureInWaitOrder ==
    /\ [](SchedFailed =>
             /\ pc = "done"
             /\ result = ErrorOf(step.ev)
             /\ \A p \in InFlight : procs[p].target > step.t)
    /\ [][(step' # step /\ step'.ev \in {"wait", "wait_err"}) =>
             /\ step'.t = job_processes[Len(job_processes)].target
             /\ \A i \in 1..(Len(job_processes) - 1) :
                    /\ job_processes[i].target > step'.t
                    /\ procs'[job_processes[i].pid].status # "free"
             /\ (step'.ev = "wait_err" <=>
                    procs[job_processes[Len(job_processes)].pid].status = "fail")]_vars
    /\ [][pc = "done" => (result' = result /\ step' = step)]_vars

\* Both jobs of a batch of two have failed; the error returned is that of
\* the one spawned last, the other was not waited on.
C18_Witness ==
    /\ pc = "done"
    /\ step.ev = "wait_err"
    /\ result = Err("Exit")
    /\ \E p \in InFlight : procs[p].status = "fail" /\ procs[p].target > step.t

\* run_job_queue has returned: Ok(()) at line 141, or an Err.
Returned == pc \in {"link", "done"}

\* C19: with W >= 1, every process exiting in the end, run_job_queue
\* returns; it returns an Err only after a failure, and when it returns
\* Ok every target of the queue it was entered with has been spawned
\* once and waited on, its object being there, and nothing is in flight;
\* no target is ever spawned twice, and no two jobs in flight are of the
\* same target (object path).
C19_Terminates ==
    /\ (call.jobs >= 1) ~> Returned
    /\ [](pc = "done" => SchedFailed)
    /\ [](\A t \in Targets : Len(spawned[t]) <= 1)
    /\ [](\A p \in InFlight : \A q \in InFlight :
              p # q => procs[p].target # procs[q].target)
    /\ [](Len(job_processes) <= Cardinality(InFlight))
    /\ \A q \in SortedQueues :
          (job_queue = q) =>
              [](pc = "link" =>
                    /\ result = NoResult
                    /\ Started = Range(q)
                    /\ Started \subseteq fs.obj
                    /\ InFlight = {} /\ job_processes = <<>> /\ job_queue = <<>>)

\* With W = 1 run_job_queue returned Ok after it compiled both targets of
\* its queue, one after the other.
C19_Witness ==
    /\ call.jobs = 1
    /\ pc = "link"
    /\ Started = Targets
    /\ InFlight = {}
    /\ step.ev = "wait"

\* C20: with W = 0 run_job_queue never spawns a process and never changes
\* its queue; entered with a non-empty queue it never returns, going round
\* the outer loop for ever; entered with an empty queue it returns Ok(())
\* as its first and only step.
C20_ZeroWorkers ==
    /\ [](call.jobs = 0 =>
             /\ InFlight = {} /\ job_processes = <<>>
             /\ \A t \in Targets : spawned[t] = <<>>
             /\ step = Step("queue", "bin", 1, 0)
             /\ result = NoResult
             /\ (job_queue # <<>> => ~Returned))
    /\ [][call.jobs = 0 =>
             /\ job_queue' = job_queue
             /\ (job_queue = <<>> => (pc = "run_job_queue" /\ pc' = "link"))
             /\ (job_queue # <<>> => pc' # pc)]_vars
    /\ (call.jobs = 0 /\ job_queue = <<>>) ~> (pc = "link")
    /\ (call.jobs = 0 /\ job_queue # <<>>) ~> (pc = "drain")
    /\ (call.jobs = 0 /\ job_queue # <<>> /\ pc = "drain") ~> (pc = "run_job_queue")

\* With W = 0 and a full queue the outer loop has taken its else branch,
\* where there is nothing to wait for.
C20_Witness ==
    /\ call.jobs = 0
    /\ Len(job_queue) = NumTargets
    /\ pc = "drain"
    /\ job_processes = <<>>

====
